---- MODULE Spec2Model ----
(***************************************************************************)
(* Model of atd-signal-comms/run_comm_check.py: main() builds Device       *)
(* instances from inventory records, loads them on an asyncio.Queue,       *)
(* spawns `workers` worker tasks, waits on queue.join(), cancels the       *)
(* tasks, dictifies the devices, validates the rows and uploads them.      *)
(* Each worker pings the device it dequeued until the retry loop of        *)
(* worker() ends.                                                          *)
(*                                                                         *)
(* asyncio is cooperative: a coroutine runs until it suspends.  The        *)
(* suspension points are queue.get() on an empty queue, the ping inside    *)
(* Device.ping, queue.join() with unfinished tasks, and asyncio.gather.    *)
(* Each action below is the code between two suspension points.  The       *)
(* event loop runs the first step of every task, in creation order,        *)
(* before the completion of any ping.                                      *)
(***************************************************************************)
EXTENDS Integers, Sequences, FiniteSets, TLC

MaxRecords == 2
MaxWorkers == 2
MaxSeconds == 1

\* Python None and a present value
None == <<>>
Some(v) == <<v>>

\* settings.py
MAX_ATTEMPTS == 2

STATUS_CODES ==
  [c \in {0, 1, -1, -2, -3} |->
     CASE c = 0 -> "no_attempts"
       [] c = 1 -> "online"
       [] c = -1 -> "timeout"
       [] c = -2 -> "invalid_hostname"
       [] c = -3 -> "unknown_error"]

\* what aioping.ping can do: return a delay, or raise
Outcomes == {"ok", "TimeoutError", "gaierror", "Exception"}
\* the delay of a successful ping, times 1000, in ms
Delays == {12}

\* the --workers values of a run: any int, a negative one and zero included
WorkerCounts == {-1} \cup 0..MaxWorkers

\* the values an inventory record can carry in the two required fields
IpValues == {None, Some(""), Some("10.0.0.1")}
DeviceIdValues == {None, Some(0), Some(7)}

\* the instants datetime.now() can return, in ms since the start of the run:
\* two reads fall in the same millisecond or in different seconds
MsPerSecond == 1000
Instants == {MsPerSecond * sec : sec \in 0..MaxSeconds}

Max(a, b) == IF a >= b THEN a ELSE b

VARIABLES
  records,     \* formatted inventory records (input of the run)
  workers,     \* --workers argument
  mainpc,      \* position of main()
  nrec,        \* index of the next inventory record main() constructs
  devices,     \* the list `devices` of main(): Device instances
  queue,       \* asyncio.Queue: indices into devices, FIFO
  unfinished,  \* asyncio.Queue._unfinished_tasks
  wpc,         \* the list `tasks`: position of each worker task
  wdev,        \* worker's local `device` (index into devices, 0: none)
  attempts,    \* worker's local `attempts`
  cancelreq,   \* per task: task.cancel() was called on it
  results,     \* the list `results` of main()
  now,         \* the last instant datetime.now() returned
  logged,      \* what the run wrote to its logger, in order
  uploads,     \* the bodies given to s3.put_object, in order
  puts,        \* history: number of queue.put calls
  outcomes,    \* history: per device, the outcome of each ping, in order
  completed,   \* history: the devices queue.task_done was called for, in order
  started,     \* history: per device, the instant each ping started
  handlers,    \* history: per device, the workers that dequeued it, in order
  probers      \* history: per device, the set of workers that pinged it

vars == <<records, workers, mainpc, nrec, devices, queue, unfinished, wpc,
          wdev, attempts, cancelreq, results, now, logged, uploads, puts,
          outcomes, completed, started, handlers, probers>>

\* datetime.now(timezone.utc) read at instant `now`: time does not go back
Clock(t) == {u \in Instants : u >= t}

----------------------------------------------------------------------------
\* device.py

FalsyStr(v) == v = None \/ v = Some("")
FalsyInt(v) == v = None \/ v = Some(0)

\* mutant: only ip_address is required
raise_if_invalidIpOnly(d) == FalsyStr(d.ip_address)

\* Device.raise_if_invalid: TRUE when ValueError is raised
raise_if_invalid(d) == FalsyStr(d.ip_address) \/ FalsyInt(d.device_id)

\* Device.get_id at instant t: f"{device_id}_{int(now.timestamp() * 1000)}"
get_id(device_id, t) == <<device_id, "_", t>>

\* strftime(DATE_FORMAT_SOCRATA): ISO-8601 to the second
strftime(t) == <<"T", t \div MsPerSecond>>

\* round(delay, 2) of a float is a float
Round2(x) == [type |-> "float", val |-> x]

\* Device.__init__ at instant t, after raise_if_invalid passed: every slot is
\* kwargs.get(key), then id and status_code = 0
DeviceInit(rec, t) ==
  [id |-> Some(get_id(rec.device_id, t)),
   knack_id |-> rec.knack_id,
   ip_address |-> rec.ip_address,
   device_id |-> rec.device_id,
   status_code |-> 0,
   status_desc |-> None,
   delay |-> None,
   timestamp |-> None]

\* mutant: the timestamp is only set by the first ping
PingBeginOnce(d, t) ==
  [d EXCEPT !.timestamp = IF @ = None THEN Some(strftime(t)) ELSE @]

\* Device.ping up to the await of aioping.ping, at instant t
PingBegin(d, t) == [d EXCEPT !.timestamp = Some(strftime(t))]

\* mutant: `except Exception` is missing
CaughtNoGeneric(outcome) == outcome \in {"TimeoutError", "gaierror"}

\* the except clauses of Device.ping
Caught(outcome) == outcome \in {"TimeoutError", "gaierror", "Exception"}

\* mutant: a successful ping stores the delay and leaves status_code as it was
pingKeepsCode(d, outcome, delay) ==
  LET code == CASE outcome = "ok" -> d.status_code
                [] outcome = "TimeoutError" -> -1
                [] outcome = "gaierror" -> -2
                [] outcome = "Exception" -> -3
  IN [d EXCEPT !.delay = IF outcome = "ok" THEN Some(Round2(delay)) ELSE @,
               !.status_code = code,
               !.status_desc = Some(STATUS_CODES[code])]

\* Device.ping from the return of aioping.ping on
ping(d, outcome, delay) ==
  LET code == CASE outcome = "ok" -> 1
                [] outcome = "TimeoutError" -> -1
                [] outcome = "gaierror" -> -2
                [] outcome = "Exception" -> -3
  IN [d EXCEPT !.delay = IF outcome = "ok" THEN Some(Round2(delay)) ELSE @,
               !.status_code = code,
               !.status_desc = Some(STATUS_CODES[code])]

\* Device.__dict__
Dictify(d) == d

----------------------------------------------------------------------------
\* config.py SCHEMA and utils.get_validator (cerberus, require_all=True)

TypeInteger(v) == v.type = "integer"

\* v.validate(row), on the fields of the model
ValidRow(row) ==
  /\ row.id # None
  /\ ~FalsyStr(row.ip_address)
  /\ ~FalsyInt(row.device_id)
  /\ row.status_code \in DOMAIN STATUS_CODES
  /\ \E c \in DOMAIN STATUS_CODES : row.status_desc = Some(STATUS_CODES[c])
  /\ row.delay = None \/ TypeInteger(row.delay[1])
  /\ row.timestamp # None

----------------------------------------------------------------------------
\* run_comm_check.py, worker()

\* mutant: a timeout ends the loop as well
ShouldAttemptNoRetry(a, status_code) ==
  a <= MAX_ATTEMPTS /\ status_code \notin {1, -1, -2, -3}

\* mutant: attempts < MAX_ATTEMPTS
ShouldAttemptStrict(a, status_code) ==
  a < MAX_ATTEMPTS /\ status_code \notin {1, -2, -3}

\* mutant: only an online device ends the loop
ShouldAttemptAnyFailure(a, status_code) ==
  a <= MAX_ATTEMPTS /\ status_code \notin {1}

\* mutant: an online device does not end the loop
ShouldAttemptPastSuccess(a, status_code) ==
  a <= MAX_ATTEMPTS /\ status_code \notin {-2, -3}

\* the condition of the retry loop
ShouldAttempt(a, status_code) ==
  a <= MAX_ATTEMPTS /\ status_code \notin {1, -2, -3}

\* mutant: queue.task_done() is called in the retry loop and after it
TaskDoneTwice(u) == u - 2

\* mutant: the worker does not call queue.task_done()
TaskDoneMissing(u) == u

\* queue.task_done()
TaskDone(u) == u - 1

\* mutant: join returns with one task unfinished
JoinReadyEarly(u) == u <= 1

\* queue.join() returns
JoinReady(u) == u = 0

\* The top of the worker loop, run until the worker suspends: queue.get()
\* returns at once while the queue is not empty; a device the retry loop does
\* not enter is task_done at once.  dev = 0: the worker blocks in queue.get().
RECURSIVE NextDevice(_, _, _)
NextDevice(q, u, devs) ==
  IF q = <<>> THEN [queue |-> q, unfinished |-> u, dev |-> 0]
  ELSE IF ShouldAttempt(0, devs[Head(q)].status_code)
       THEN [queue |-> Tail(q), unfinished |-> u, dev |-> Head(q)]
       ELSE NextDevice(Tail(q), TaskDone(u), devs)

\* history of the dequeues a worker made going from queue q to queue q2
Dequeued(q, q2) == SubSeq(q, 1, Len(q) - Len(q2))

\* worker w, at the top of its loop with queue q, unfinished count u and
\* devices devs, at instant t: it begins the first ping of the device it gets.
\* fin: the devices it called task_done for just before.
Take(w, q, u, devs, t, fin) ==
  LET nd == NextDevice(q, u, devs)
      got == Dequeued(q, nd.queue)
      skipped == IF nd.dev = 0 THEN got ELSE SubSeq(got, 1, Len(got) - 1)
  IN /\ nd.dev = 0 => t = now
     /\ completed' = completed \o fin \o skipped
     /\ queue' = nd.queue
     /\ unfinished' = nd.unfinished
     /\ wdev' = [wdev EXCEPT ![w] = nd.dev]
     /\ attempts' = [attempts EXCEPT ![w] = IF nd.dev = 0 THEN 0 ELSE 1]
     /\ wpc' = [wpc EXCEPT ![w] = IF nd.dev = 0 THEN "waiting" ELSE "ping"]
     /\ devices' = IF nd.dev = 0 THEN devs
                   ELSE [devs EXCEPT ![nd.dev] = PingBegin(@, t)]
     /\ now' = t
     /\ started' = [d \in DOMAIN started |->
                      IF d = nd.dev THEN Append(started[d], t) ELSE started[d]]
     /\ handlers' = [d \in DOMAIN handlers |->
                       IF \E i \in 1..Len(got) : got[i] = d
                       THEN Append(handlers[d], w) ELSE handlers[d]]
     /\ probers' = [d \in DOMAIN probers |->
                       IF d = nd.dev THEN probers[d] \cup {w} ELSE probers[d]]

\* a task runs for the first time, once main() is suspended in queue.join();
\* the tasks start in the order of their creation
WorkerStart(w, t) ==
  /\ mainpc = "join" /\ ~JoinReady(unfinished)
  /\ wpc[w] = "created"
  /\ \A v \in 1..(w - 1) : wpc[v] # "created"
  /\ Take(w, queue, unfinished, devices, t, <<>>)
  /\ UNCHANGED <<records, workers, mainpc, nrec, cancelreq, results, logged,
                 uploads, puts, outcomes>>

\* mutant: a device that timed out is put back on the queue for its retry
PingReturnRequeue(w, outcome, delay, t) ==
  /\ wpc[w] = "ping"
  /\ \A v \in DOMAIN wpc : wpc[v] # "created"
  /\ LET d == wdev[w]
         devs == [devices EXCEPT ![d] = ping(devices[d], outcome, delay)]
     IN /\ outcomes' = [outcomes EXCEPT ![d] = Append(@, outcome)]
        /\ IF ShouldAttempt(attempts[w], devs[d].status_code)
           THEN /\ puts' = puts + 1
                /\ Take(w, Append(queue, d), unfinished, devs, t, <<>>)
           ELSE /\ puts' = puts
                /\ Take(w, queue, TaskDone(unfinished), devs, t, <<d>>)
  /\ UNCHANGED <<records, workers, mainpc, nrec, cancelreq, results, logged,
                 uploads>>

\* the ping of the worker's device returns or raises, at instant t
PingReturn(w, outcome, delay, t) ==
  /\ wpc[w] = "ping"
  /\ \A v \in DOMAIN wpc : wpc[v] # "created"
  /\ LET d == wdev[w]
         devs == [devices EXCEPT ![d] = ping(devices[d], outcome, delay)]
     IN IF outcome # "ok" /\ ~Caught(outcome)
        THEN \* the exception leaves ping and worker: the task is done
             /\ t = now
             /\ wpc' = [wpc EXCEPT ![w] = "raised"]
             /\ UNCHANGED <<devices, queue, unfinished, wdev, attempts, now,
                            outcomes, completed, started, handlers, probers>>
        ELSE /\ outcomes' = [outcomes EXCEPT ![d] = Append(@, outcome)]
             /\ IF ShouldAttempt(attempts[w], devs[d].status_code)
                THEN /\ attempts' = [attempts EXCEPT ![w] = @ + 1]
                     /\ devices' = [devs EXCEPT ![d] = PingBegin(@, t)]
                     /\ now' = t
                     /\ started' = [started EXCEPT ![d] = Append(@, t)]
                     /\ UNCHANGED <<queue, unfinished, wdev, wpc, completed,
                                    handlers, probers>>
                ELSE Take(w, queue, TaskDone(unfinished), devs, t, <<d>>)
  /\ UNCHANGED <<records, workers, mainpc, nrec, cancelreq, results, logged,
                 uploads, puts>>

\* CancelledError is thrown into a task that main() cancelled, where the
\* task is suspended (CancelledError is not an Exception: ping lets it pass)
WorkerCancelled(w) ==
  /\ mainpc = "gather"
  /\ cancelreq[w]
  /\ wpc[w] \in {"created", "waiting", "ping"}
  /\ wpc' = [wpc EXCEPT ![w] = "cancelled"]
  /\ UNCHANGED <<records, workers, mainpc, nrec, devices, queue, unfinished,
                 wdev, attempts, cancelreq, results, now, logged, uploads,
                 puts, outcomes, completed, started, handlers, probers>>

----------------------------------------------------------------------------
\* run_comm_check.py, main()

\* mutant: the new device goes to the front of the list
MainConstructPrepend(t) ==
  /\ mainpc = "construct"
  /\ nrec <= Len(records)
  /\ IF raise_if_invalid(records[nrec])
     THEN t = now /\ UNCHANGED <<devices, now>>
     ELSE /\ devices' = <<DeviceInit(records[nrec], t)>> \o devices
          /\ now' = t
  /\ nrec' = nrec + 1
  /\ UNCHANGED <<records, workers, mainpc, queue, unfinished, wpc, wdev,
                 attempts, cancelreq, results, logged, uploads, puts,
                 outcomes, completed, started, handlers, probers>>

\* one turn of the loop that constructs the Device instances, at instant t:
\* a record that raises ValueError is skipped
MainConstruct(t) ==
  /\ mainpc = "construct"
  /\ nrec <= Len(records)
  /\ IF raise_if_invalid(records[nrec])
     THEN t = now /\ UNCHANGED <<devices, now>>
     ELSE /\ devices' = Append(devices, DeviceInit(records[nrec], t))
          /\ now' = t
  /\ nrec' = nrec + 1
  /\ UNCHANGED <<records, workers, mainpc, queue, unfinished, wpc, wdev,
                 attempts, cancelreq, results, logged, uploads, puts,
                 outcomes, completed, started, handlers, probers>>

\* mutant: every device is put on the queue twice
LoadQueueTwice(devs) ==
  [i \in 1..Len(devs) |-> i] \o [i \in 1..Len(devs) |-> i]

\* the devices loaded on the queue, in order
LoadQueue(devs) == [i \in 1..Len(devs) |-> i]

\* logger.debug of the number of devices, then one queue.put per device
MainLoad ==
  /\ mainpc = "construct"
  /\ nrec > Len(records)
  /\ logged' = Append(logged, [what |-> "devices to ping", n |-> Len(devices)])
  /\ queue' = LoadQueue(devices)
  /\ unfinished' = Len(queue')
  /\ puts' = Len(queue')
  /\ outcomes' = [d \in 1..Len(devices) |-> <<>>]
  /\ completed' = <<>>
  /\ started' = [d \in 1..Len(devices) |-> <<>>]
  /\ handlers' = [d \in 1..Len(devices) |-> <<>>]
  /\ probers' = [d \in 1..Len(devices) |-> {}]
  /\ mainpc' = "spawn"
  /\ UNCHANGED <<records, workers, nrec, devices, wpc, wdev, attempts,
                 cancelreq, results, now, uploads>>

\* mutant: range(workers + 1)
SpawnCountExtra(n) == Max(n, 0) + 1

\* len(range(workers))
SpawnCount(n) == Max(n, 0)

\* for i in range(workers): create_task(worker(queue))
MainSpawn ==
  /\ mainpc = "spawn"
  /\ wpc' = [w \in 1..SpawnCount(workers) |-> "created"]
  /\ wdev' = [w \in 1..SpawnCount(workers) |-> 0]
  /\ attempts' = [w \in 1..SpawnCount(workers) |-> 0]
  /\ cancelreq' = [w \in 1..SpawnCount(workers) |-> FALSE]
  /\ mainpc' = "join"
  /\ UNCHANGED <<records, workers, nrec, devices, queue, unfinished, results,
                 now, logged, uploads, puts, outcomes, completed, started,
                 handlers, probers>>

\* mutant: main() gathers the tasks without cancelling them
MainJoinReturnNoCancel ==
  /\ mainpc = "join"
  /\ JoinReady(unfinished)
  /\ mainpc' = "gather"
  /\ UNCHANGED <<records, workers, nrec, devices, queue, unfinished, wpc, wdev,
                 attempts, cancelreq, results, now, logged, uploads, puts,
                 outcomes, completed, started, handlers, probers>>

\* queue.join() returns; every task is cancelled; main() suspends in gather
MainJoinReturn ==
  /\ mainpc = "join"
  /\ JoinReady(unfinished)
  /\ cancelreq' = [w \in DOMAIN wpc |-> TRUE]
  /\ mainpc' = "gather"
  /\ UNCHANGED <<records, workers, nrec, devices, queue, unfinished, wpc, wdev,
                 attempts, results, now, logged, uploads, puts, outcomes,
                 completed, started, handlers, probers>>

\* gather returns once every task is done; the devices are dictified
MainGatherReturn ==
  /\ mainpc = "gather"
  /\ \A w \in DOMAIN wpc : wpc[w] \in {"cancelled", "raised"}
  /\ results' = [i \in 1..Len(devices) |-> Dictify(devices[i])]
  /\ mainpc' = "validate"
  /\ UNCHANGED <<records, workers, nrec, devices, queue, unfinished, wpc, wdev,
                 attempts, cancelreq, now, logged, uploads, puts, outcomes,
                 completed, started, handlers, probers>>

\* mutant: a row that fails validation does not raise
validate_resultsLenient(rows) == FALSE

\* validate_results: TRUE when ValueError is raised
validate_results(rows) == \E i \in 1..Len(rows) : ~ValidRow(rows[i])

\* validate_results(results), then log_results(results)
MainValidate ==
  /\ mainpc = "validate"
  /\ IF validate_results(results)
     THEN mainpc' = "error" /\ UNCHANGED logged
     ELSE /\ mainpc' = "upload"
          /\ logged' = Append(logged, [what |-> "status counts",
                                       n |-> Len(results)])
  /\ UNCHANGED <<records, workers, nrec, devices, queue, unfinished, wpc, wdev,
                 attempts, cancelreq, results, now, uploads, puts, outcomes,
                 completed, started, handlers, probers>>

\* s3.put_object(Body=json.dumps(results), ...)
MainUpload ==
  /\ mainpc = "upload"
  /\ uploads' = Append(uploads, results)
  /\ mainpc' = "done"
  /\ UNCHANGED <<records, workers, nrec, devices, queue, unfinished, wpc, wdev,
                 attempts, cancelreq, results, now, logged, puts, outcomes,
                 completed, started, handlers, probers>>

----------------------------------------------------------------------------

Record(i, ip, id) == [knack_id |-> i, ip_address |-> ip, device_id |-> id]

\* a record is well-formed or has one required field missing or falsy
RecordValues ==
  {v \in IpValues \X DeviceIdValues : ~FalsyStr(v[1]) \/ ~FalsyInt(v[2])}

Inventories ==
  UNION {{[i \in 1..n |-> Record(i, f[i][1], f[i][2])] :
            f \in [1..n -> RecordValues]} : n \in 0..MaxRecords}

Init ==
  /\ records \in Inventories
  /\ workers \in WorkerCounts
  /\ mainpc = "construct"
  /\ nrec = 1
  /\ devices = <<>>
  /\ queue = <<>>
  /\ unfinished = 0
  /\ wpc = <<>>
  /\ wdev = <<>>
  /\ attempts = <<>>
  /\ cancelreq = <<>>
  /\ results = <<>>
  /\ now = 0
  /\ logged = <<>>
  /\ uploads = <<>>
  /\ puts = 0
  /\ outcomes = <<>>
  /\ completed = <<>>
  /\ started = <<>>
  /\ handlers = <<>>
  /\ probers = <<>>

Next ==
  \/ \E t \in Clock(now) : MainConstruct(t)
  \/ MainLoad
  \/ MainSpawn
  \/ MainJoinReturn
  \/ MainGatherReturn
  \/ MainValidate
  \/ MainUpload
  \/ \E w \in DOMAIN wpc, t \in Clock(now) : WorkerStart(w, t)
  \/ \E w \in DOMAIN wpc, o \in Outcomes, dl \in Delays, t \in Clock(now) :
        PingReturn(w, o, dl, t)
  \/ \E w \in DOMAIN wpc : WorkerCancelled(w)

Spec == Init /\ [][Next]_vars

\* every ping ends (aioping.ping is bounded by TIMEOUT) and the event loop
\* runs every task that is ready
FairSpec == Spec /\ WF_vars(Next)

----------------------------------------------------------------------------
\* Vocabulary of the properties

Devs == 1..Len(devices)

\* the knack ids of the inventory records main() admits, in inventory order
AdmittedIds ==
  SelectSeq([i \in 1..Len(records) |-> i],
            LAMBDA i : ~raise_if_invalid(records[i]))

K == Len(AdmittedIds)

Probes(d) == Len(outcomes[d])

InProgress(d) == \E w \in DOMAIN wpc : wpc[w] = "ping" /\ wdev[w] = d

Queued(d) == \E i \in 1..Len(queue) : queue[i] = d

\* the queue is loaded (the histories exist from MainLoad on)
Loaded ==
  mainpc \in {"spawn", "join", "gather", "validate", "upload", "done", "error"}

\* main() has built the list `results`
ResultsBuilt == mainpc \in {"validate", "upload", "done", "error"}

\* the worker of d has left the retry loop of d
Finished(d) == Loaded /\ handlers[d] # <<>> /\ ~InProgress(d)

JoinReturned ==
  \/ mainpc = "join" /\ JoinReady(unfinished)
  \/ mainpc \in {"gather", "validate", "upload", "done", "error"}

AllTimeouts(d) == \A i \in 1..Probes(d) : outcomes[d][i] = "TimeoutError"

Terminal(d) ==
  /\ Probes(d) >= 1
  /\ \/ devices[d].status_code \in {1, -2, -3}
     \/ devices[d].status_code = -1 /\ Probes(d) = MAX_ATTEMPTS + 1

----------------------------------------------------------------------------
\* C1: with at least one worker, whatever the inventory and the ping outcomes,
\* the pool run ends (queue loaded, workers spawned, join returned, workers
\* cancelled) and the results hold exactly one record per admitted target.
C1_PoolTerminates ==
  (workers >= 1) =>
     <>(/\ mainpc = "validate"
        /\ Len(results) = K
        /\ \A i \in 1..K : results[i].knack_id = AdmittedIds[i])

C1_Witness ==
  /\ mainpc = "validate"
  /\ workers >= 1
  /\ Len(results) = MaxRecords
  /\ \E d \in Devs : Probes(d) = MAX_ATTEMPTS + 1

\* C2: when queue.join() has returned every admitted device is terminal: it
\* was pinged at least once and its status_code is 1, -2 or -3, or it is -1
\* with the whole attempt budget used; none has status_code 0, is still
\* queued or is still being pinged.
C2_TerminalAtJoin ==
  JoinReturned =>
     \A d \in Devs :
        /\ Terminal(d)
        /\ devices[d].status_code # 0
        /\ ~Queued(d)
        /\ ~InProgress(d)

C2_Witness ==
  /\ mainpc = "join" /\ JoinReady(unfinished)
  /\ \E d, e \in Devs :
        /\ devices[d].status_code = -1
        /\ devices[e].status_code = -2

\* C3: no device is pinged more than MAX_ATTEMPTS + 1 times, and a device all
\* of whose pings timed out is pinged exactly MAX_ATTEMPTS + 1 times and ends
\* with status_code -1.
C3_TimeoutBudget ==
  Loaded =>
     \A d \in Devs :
        /\ Probes(d) <= MAX_ATTEMPTS + 1
        /\ \A w \in DOMAIN wpc :
              (wpc[w] = "ping" /\ wdev[w] = d) => attempts[w] = Probes(d) + 1
        /\ (Finished(d) /\ AllTimeouts(d)) =>
              /\ Probes(d) = MAX_ATTEMPTS + 1
              /\ devices[d].status_code = -1

C3_Witness ==
  /\ Loaded
  /\ \E d \in Devs :
        /\ Finished(d)
        /\ AllTimeouts(d)
        /\ Probes(d) = 3
        /\ devices[d].status_code = -1

\* C4: the retry loop stops at the first ping whose outcome is not a timeout:
\* every ping of a device but its last timed out, and a device whose first
\* ping was an invalid host (-2) or an unknown error (-3) was pinged once and
\* keeps that status_code.
C4_RetryOnlyOnTimeout ==
  Loaded =>
     \A d \in Devs :
        /\ \A i \in 1..(Probes(d) - 1) : outcomes[d][i] = "TimeoutError"
        /\ (Probes(d) >= 1 /\ outcomes[d][1] = "gaierror") =>
              (Probes(d) = 1 /\ devices[d].status_code = -2 /\ ~InProgress(d))
        /\ (Probes(d) >= 1 /\ outcomes[d][1] = "Exception") =>
              (Probes(d) = 1 /\ devices[d].status_code = -3 /\ ~InProgress(d))

C4_Witness ==
  /\ mainpc = "validate"
  /\ \E d, e \in Devs :
        /\ outcomes[d] = <<"gaierror">> /\ results[d].status_code = -2
        /\ outcomes[e] = <<"Exception">> /\ results[e].status_code = -3

\* C5: a device that timed out j times (1 <= j <= MAX_ATTEMPTS) and then
\* answered has status_code 1 after exactly j + 1 pings and is not pinged
\* again.
C5_TimeoutThenSuccess ==
  Loaded =>
     \A d \in Devs : \A j \in 1..MAX_ATTEMPTS :
        (/\ Probes(d) > j
         /\ \A i \in 1..j : outcomes[d][i] = "TimeoutError"
         /\ outcomes[d][j + 1] = "ok")
        => /\ Probes(d) = j + 1
           /\ devices[d].status_code = 1
           /\ ~InProgress(d)

C5_Witness ==
  /\ mainpc = "validate"
  /\ \E d, e \in Devs :
        /\ outcomes[d] = <<"TimeoutError", "ok">>
        /\ results[d].status_code = 1
        /\ outcomes[e] = <<"TimeoutError", "TimeoutError", "ok">>
        /\ results[e].status_code = 1

\* C6: a run with a worker count <= 0 is rejected before anything is pinged:
\* it never waits in queue.join() for the queue to drain and never goes on
\* to build results.
C6_RejectsBadWorkerCount ==
  (workers <= 0) =>
     /\ ~(mainpc = "join" /\ ~JoinReady(unfinished))
     /\ mainpc # "validate"

\* C7: with more workers than admitted targets (also with no target at all)
\* queue.join() returns and every worker task, the ones that never got a
\* target included, ends cancelled at shutdown; the run goes on past gather.
C7_IdleWorkersEnd ==
  (workers > K) =>
     <>(/\ mainpc = "validate"
        /\ Len(wpc) = workers
        /\ \A w \in DOMAIN wpc : wpc[w] = "cancelled")

C7_Witness ==
  /\ mainpc = "validate"
  /\ workers > K
  /\ K >= 1
  /\ \E w \in DOMAIN wpc : wpc[w] = "cancelled" /\ \A d \in Devs : w \notin probers[d]
  /\ \E w \in DOMAIN wpc : wpc[w] = "cancelled" /\ \E d \in Devs : w \in probers[d]

\* C8: a device is dequeued at most once, by one worker, which makes all its
\* pings; no two workers hold the same device; once join has returned every
\* device was dequeued exactly once.
C8_ExclusiveOwner ==
  Loaded =>
     \A d \in Devs :
        /\ Len(handlers[d]) <= 1
        /\ \A w \in probers[d] : handlers[d] = <<w>>
        /\ \A v, w \in DOMAIN wpc :
              (wpc[v] = "ping" /\ wpc[w] = "ping" /\ wdev[v] = d /\ wdev[w] = d)
                 => v = w
        /\ InProgress(d) => ~Queued(d)
        /\ JoinReturned => Len(handlers[d]) = 1

C8_Witness ==
  /\ mainpc = "join"
  /\ \E d, e \in Devs : \E v, w \in DOMAIN wpc :
        /\ d # e /\ v # w
        /\ wpc[v] = "ping" /\ wdev[v] = d
        /\ wpc[w] = "ping" /\ wdev[w] = e
        /\ Probes(d) >= 1 /\ Probes(e) >= 1

\* C9: from its construction on, before any ping included, a device's
\* status_code is one of 0, 1, -1, -2, -3 and its status_desc is
\* STATUS_CODES[status_code].
C9_StatusDescLookup ==
  \A d \in Devs :
     /\ devices[d].status_code \in DOMAIN STATUS_CODES
     /\ devices[d].status_desc = Some(STATUS_CODES[devices[d].status_code])

\* C10: in every state and in every result record, a device whose delay is
\* set has status_code 1.
C10_DelayOnlyOnline ==
  /\ \A d \in Devs :
        devices[d].delay # None => devices[d].status_code = 1
  /\ \A i \in 1..Len(results) :
        results[i].delay # None => results[i].status_code = 1

C10_Witness ==
  /\ mainpc = "validate"
  /\ \E i, j \in 1..Len(results) :
        /\ results[i].delay # None /\ outcomes[i] = <<"TimeoutError", "ok">>
        /\ results[j].delay = None /\ results[j].status_code = -1

----------------------------------------------------------------------------
\* Vocabulary of the later properties

\* a record whose ip_address or device_id is missing or falsy
Malformed(rec) ==
  \/ rec.ip_address \in {None, Some("")}
  \/ rec.device_id \in {None, Some(0)}

\* knack ids of the well-formed records among the first n of the inventory
WellFormedIds(n) == {i \in 1..n : ~Malformed(records[i])}

NumWellFormed == Cardinality(WellFormedIds(Len(records)))
NumMalformed == Len(records) - NumWellFormed

Last(seq) == seq[Len(seq)]

InSeq(x, seq) == \E i \in 1..Len(seq) : seq[i] = x

CodeOf(outcome) ==
  CASE outcome = "ok" -> 1
    [] outcome = "TimeoutError" -> -1
    [] outcome = "gaierror" -> -2
    [] outcome = "Exception" -> -3

C12_ResultsInInputOrder ==
  ResultsBuilt =>
     /\ Len(results) = K
     /\ \A i \in 1..K :
           /\ results[i].knack_id = AdmittedIds[i]
           /\ results[i].ip_address = records[AdmittedIds[i]].ip_address
           /\ results[i].status_code = CodeOf(Last(outcomes[i]))

C12_Witness ==
  /\ ResultsBuilt
  /\ K >= 2
  /\ completed[1] > completed[2]
  /\ results[1].knack_id < results[2].knack_id

\* C13: no two devices constructed in one run have the same id.
C13_UniqueIds ==
  \A d, e \in Devs : d # e => devices[d].id # devices[e].id

\* C14: a ping never raises to the worker: whatever its outcome, the matching
\* status_code is recorded on the device, no worker task ends with an
\* exception, and a device whose retry loop ended was task_done.
C14_PingNeverRaises ==
  Loaded =>
     /\ \A w \in DOMAIN wpc : wpc[w] # "raised"
     /\ \A d \in Devs :
           /\ Probes(d) >= 1 =>
                 devices[d].status_code = CodeOf(Last(outcomes[d]))
           /\ Probes(d) = Len(started[d]) - (IF InProgress(d) THEN 1 ELSE 0)
           /\ (Probes(d) >= 1 /\ ~InProgress(d)) => InSeq(d, completed)

C14_Witness ==
  /\ mainpc = "join"
  /\ \E w \in DOMAIN wpc : \E d, e \in Devs :
        /\ d # e
        /\ handlers[d] = <<w>> /\ handlers[e] = <<w>>
        /\ outcomes[d] = <<"Exception">>
        /\ devices[d].status_code = -3
        /\ InSeq(d, completed)
        /\ outcomes[e] = <<"gaierror">>
        /\ devices[e].status_code = -2

\* a device that is terminal: online, invalid host or unknown error, or timed
\* out with its worker having called task_done
Frozen(d) ==
  /\ Loaded
  /\ \/ devices[d].status_code \in {1, -2, -3}
     \/ devices[d].status_code = -1 /\ InSeq(d, completed)

\* C15: once a device is terminal no step changes any of its fields.
C15_TerminalIsFinal ==
  [][\A d \in Devs : Frozen(d) => devices'[d] = devices[d]]_vars

C15_Witness ==
  /\ mainpc = "join"
  /\ \E d, e \in Devs :
        /\ devices[d].status_code = -1 /\ InSeq(d, completed)
        /\ InProgress(e) /\ Probes(e) >= 1

\* task.cancel() was called on the worker tasks
CancelRaised == mainpc \in {"gather", "validate", "upload", "done", "error"}

Pinging == {w \in DOMAIN wpc : wpc[w] = "ping"}

\* C16 as stated: when the tasks are cancelled no ping is in flight and no
\* target is left to pull, every started ping has its outcome recorded, and
\* every worker is blocked waiting on the empty queue (or, later, ended).
C16_CancelOnlyWhenAllWaiting ==
  CancelRaised =>
     /\ queue = <<>>
     /\ \A d \in Devs : ~InProgress(d) /\ Len(started[d]) = Probes(d)
     /\ \A w \in DOMAIN wpc :
           /\ cancelreq[w]
           /\ wpc[w] \in {"waiting", "cancelled"}
     /\ ResultsBuilt => \A w \in DOMAIN wpc : wpc[w] = "cancelled"

\* C16, amended: as stated, but a worker may also not have run at all when
\* it is cancelled, which happens exactly when no target was admitted.
C16_CancelOnlyWhenIdle ==
  CancelRaised =>
     /\ queue = <<>>
     /\ \A d \in Devs : ~InProgress(d) /\ Len(started[d]) = Probes(d)
     /\ \A w \in DOMAIN wpc :
           /\ cancelreq[w]
           /\ wpc[w] \in {"waiting", "created", "cancelled"}
           /\ wpc[w] = "created" => K = 0
           /\ (wpc[w] = "cancelled" /\ K > 0) => attempts[w] = 0 /\ wdev[w] = 0
     /\ ResultsBuilt => \A w \in DOMAIN wpc : wpc[w] = "cancelled"

C16_Witness ==
  /\ mainpc = "gather"
  /\ \E v, w \in DOMAIN wpc :
        /\ wpc[v] = "waiting" /\ cancelreq[v]
        /\ wpc[w] = "cancelled"
  /\ \E d \in Devs : Probes(d) = MAX_ATTEMPTS + 1 /\ Len(started[d]) = Probes(d)

\* C17: the attempts of a device are sequential and in place: a ping starts
\* only when the outcome of the one before is recorded, a device that was
\* dequeued is never on the queue again, and the number of queue puts of the
\* run is the number of admitted devices.
C17_RetryInPlace ==
  Loaded =>
     /\ puts = K
     /\ \A d \in Devs :
           /\ InProgress(d) => Len(started[d]) = Probes(d) + 1
           /\ ~InProgress(d) => Len(started[d]) = Probes(d)
           /\ Len(started[d]) >= 1 => ~Queued(d)
           /\ Len(started[d]) >= 1 => Len(handlers[d]) = 1

C17_Witness ==
  /\ mainpc = "join"
  /\ \E d, e \in Devs :
        /\ InProgress(d) /\ Probes(d) = 2 /\ Len(started[d]) = 3
        /\ Queued(e)
  /\ puts = 2

\* C18: a device's timestamp is the instant, to the second, at which its last
\* ping started; it is unset before the first ping.
C18_TimestampOfLastAttempt ==
  Loaded =>
     \A d \in Devs :
        /\ started[d] = <<>> => devices[d].timestamp = None
        /\ started[d] # <<>> =>
              devices[d].timestamp = Some(<<"T", Last(started[d]) \div 1000>>)
        /\ ResultsBuilt => results[d].timestamp = devices[d].timestamp

C18_Witness ==
  /\ mainpc = "done"
  /\ \E d \in Devs :
        /\ Len(started[d]) = 3
        /\ started[d][1] = 0
        /\ started[d][3] = 1000
        /\ results[d].timestamp = Some(<<"T", 1>>)
        /\ results[d].id = Some(<<Some(7), "_", 0>>)

\* C19: put_object happens at most once, with the results, after join
\* returned and every row passed validation; a row that fails validation
\* ends the run with ValueError and nothing is uploaded.
C19_UploadOnlyValidated ==
  /\ Len(uploads) <= 1
  /\ uploads # <<>> =>
        /\ mainpc = "done"
        /\ JoinReturned
        /\ uploads[1] = results
        /\ \A i \in 1..Len(results) : ValidRow(results[i])
        /\ \A d \in Devs : Terminal(d) /\ results[d] = devices[d]
  /\ mainpc = "done" => Len(uploads) = 1
  /\ mainpc = "error" =>
        /\ uploads = <<>>
        /\ \E i \in 1..Len(results) : ~ValidRow(results[i])
  /\ (ResultsBuilt /\ \E i \in 1..Len(results) : ~ValidRow(results[i])) =>
        mainpc \in {"validate", "error"}

C19_Witness ==
  /\ mainpc = "done"
  /\ Len(uploads) = 1
  /\ Len(uploads[1]) >= 2
  /\ uploads[1][1].status_code = -1
  /\ uploads[1][2].status_code = -2

\* C20: from spawn to shutdown there are exactly W worker tasks (none for a
\* negative count); at most W pings are in flight and at most min(W, K)
\* devices are in progress.
C20_WorkerCount ==
  mainpc \in {"join", "gather", "validate", "upload", "done", "error"} =>
     /\ Len(wpc) = Max(workers, 0)
     /\ DOMAIN wdev = DOMAIN wpc /\ DOMAIN attempts = DOMAIN wpc
     /\ Cardinality(Pinging) <= Max(workers, 0)
     /\ Cardinality({d \in Devs : InProgress(d)}) <= Max(workers, 0)
     /\ Cardinality({d \in Devs : InProgress(d)}) <= K
     /\ Cardinality({d \in Devs : InProgress(d)}) = Cardinality(Pinging)

C20_Witness ==
  /\ mainpc = "join"
  /\ workers >= 2
  /\ K >= 2
  /\ Cardinality(Pinging) = 2
  /\ \E d \in Devs : Probes(d) >= 1

\* C21: from the loading of the queue on, task_done is called exactly once
\* for each dequeued device, and only when its retry loop has ended; the
\* unfinished count of the queue is the number of devices still queued plus
\* the number being processed, is never negative, and is zero exactly when
\* every admitted device is terminal.
C21_QueueAccounting ==
  Loaded =>
     /\ unfinished >= 0
     /\ unfinished = Len(queue) + Cardinality({d \in Devs : InProgress(d)})
     /\ unfinished = Len(devices) - Len(completed)
     /\ \A i, j \in 1..Len(completed) : completed[i] = completed[j] => i = j
     /\ \A d \in Devs :
           /\ InSeq(d, completed) <=> (handlers[d] # <<>> /\ ~InProgress(d))
           /\ InSeq(d, completed) => Terminal(d) /\ ~Queued(d)
           /\ Queued(d) => handlers[d] = <<>> /\ devices[d].status_code = 0
     /\ (unfinished = 0) <=> (\A d \in Devs : Terminal(d))

C21_Witness ==
  /\ mainpc = "join"
  /\ unfinished = 1
  /\ completed = <<2>>
  /\ queue = <<>>
  /\ \E d \in Devs : InProgress(d) /\ Probes(d) = 2

====
